---- MODULE Spec2Model ----
(***************************************************************************)
(* Interval arithmetic of IntLib.py.                                       *)
(*                                                                         *)
(* A binary64 value is modelled as a pair <<kind, n>>: <<0, n>> is the     *)
(* integer n (exactly representable), <<1, 1>> and <<1, -1>> are the two   *)
(* infinities and <<2, 0>> is NaN.  Sums and products of the integers      *)
(* used here are exact in binary64, so only a                              *)
(* quotient or a library function depends on the rounding register: its    *)
(* inexact value is rounded to the neighbouring integer in the direction   *)
(* of the register.  Signed zeros are not distinguished (they compare      *)
(* equal and no division by a zero is evaluated as a float).               *)
(***************************************************************************)
EXTENDS Integers, Sequences, FiniteSets, TLC

\* ---------------------------------------------------------------- bounds
\* largest finite magnitude of an operand bound of a call
MaxN == 2
\* largest finite magnitude of a bound in the inclusion-isotonicity check
MaxIso == 1
\* largest exponent magnitude passed to _pow
MaxPow == 3
\* largest finite magnitude of an operand bound of _sin and _cos
MaxAngle == 4

\* ------------------------------------------------------- rounding register
FE_TONEAREST == 0
FE_DOWNWARD == 256
FE_UPWARD == 512
Modes == {FE_TONEAREST, FE_DOWNWARD, FE_UPWARD}

\* fesetround returns 0 and the register holds the requested mode
round_down == FE_DOWNWARD
round_up == FE_UPWARD
round_nearest == FE_TONEAREST

\* ------------------------------------------------------------------ floats
Fin(n) == <<0, n>>
ninf == <<1, -1>>
inf == <<1, 1>>
nan == <<2, 0>>

isnan(f) == f[1] = 2
IsInf(f) == f[1] = 1
IsFin(f) == f[1] = 0
Sign(f) == IF f[2] > 0 THEN 1 ELSE IF f[2] < 0 THEN -1 ELSE 0

\* IEEE comparisons: every comparison with a NaN is false
FLt(a, b) ==
    /\ ~isnan(a)
    /\ ~isnan(b)
    /\ CASE IsInf(a) /\ IsInf(b) -> a[2] < b[2]
         [] IsInf(a) -> a[2] < 0
         [] IsInf(b) -> b[2] > 0
         [] OTHER -> a[2] < b[2]
FEq(a, b) == ~isnan(a) /\ ~isnan(b) /\ a = b
FLe(a, b) == FLt(a, b) \/ FEq(a, b)
FGt(a, b) == FLt(b, a)
FGe(a, b) == FLe(b, a)

FNeg(a) == IF isnan(a) THEN nan ELSE <<a[1], -a[2]>>
FAbs(a) == IF isnan(a) THEN nan ELSE <<a[1], IF a[2] < 0 THEN -a[2] ELSE a[2]>>

\* a + b: inf + -inf is NaN; the finite sum is exact
FAdd(a, b) ==
    CASE isnan(a) \/ isnan(b) -> nan
      [] IsInf(a) /\ IsInf(b) -> IF a = b THEN a ELSE nan
      [] IsInf(a) -> a
      [] IsInf(b) -> b
      [] OTHER -> Fin(a[2] + b[2])
FSub(a, b) == FAdd(a, FNeg(b))

\* a * b: 0 * inf is NaN; the finite product is exact
FMul(a, b) ==
    CASE isnan(a) \/ isnan(b) -> nan
      [] IsInf(a) \/ IsInf(b) ->
           IF Sign(a) * Sign(b) = 0 THEN nan ELSE <<1, Sign(a) * Sign(b)>>
      [] OTHER -> Fin(a[2] * b[2])

\* integer quotient p / q (q > 0) rounded in the direction of the register
RoundQuot(p, q, rm) ==
    LET fl == p \div q
        ex == (p % q) = 0
        twice == 2 * (p % q)
    IN  CASE ex -> fl
          [] rm = FE_DOWNWARD -> fl
          [] rm = FE_UPWARD -> fl + 1
          [] OTHER -> IF twice < q THEN fl
                      ELSE IF twice > q THEN fl + 1
                      ELSE IF fl % 2 = 0 THEN fl ELSE fl + 1

\* a / b with a non-zero b: inf / inf is NaN, finite / inf is 0
FDiv(a, b, rm) ==
    CASE isnan(a) \/ isnan(b) -> nan
      [] IsInf(a) /\ IsInf(b) -> nan
      [] IsInf(a) -> <<1, Sign(a) * Sign(b)>>
      [] IsInf(b) -> Fin(0)
      [] OTHER -> IF b[2] > 0 THEN Fin(RoundQuot(a[2], b[2], rm))
                  ELSE Fin(RoundQuot(-a[2], -b[2], rm))

\* a float division by zero raises ZeroDivisionError in compiled code
IsZero(b) == b = Fin(0)

\* Python's min(v1, ..., vn) / max(v1, ..., vn): keep the first unless a later
\* one compares strictly smaller / larger
RECURSIVE MinFold(_, _)
MinFold(acc, s) ==
    IF s = <<>> THEN acc
    ELSE MinFold(IF FLt(Head(s), acc) THEN Head(s) ELSE acc, Tail(s))
RECURSIVE MaxFold(_, _)
MaxFold(acc, s) ==
    IF s = <<>> THEN acc
    ELSE MaxFold(IF FGt(Head(s), acc) THEN Head(s) ELSE acc, Tail(s))
min(s) == MinFold(Head(s), Tail(s))
max(s) == MaxFold(Head(s), Tail(s))

\* --------------------------------------------------------------- predicates
_is_valid(_x, x_) == isnan(_x) = isnan(x_)

_is_extended(_x, x_) == FGt(_x, x_)

\* the bounds compared with nan by ==, which is false of every float
_isempty_by_eq(_x, x_) == FEq(_x, nan) /\ FEq(x_, nan)

_isempty(_x, x_) == isnan(_x) /\ isnan(x_)

\* both arms of an extended interval required to reach zero
_has_zero_both_arms(_x, x_) ==
    IF _isempty(_x, x_) THEN FALSE
    ELSE IF _is_extended(_x, x_) THEN FLe(Fin(0), x_) /\ FLe(_x, Fin(0))
    ELSE FLe(_x, Fin(0)) /\ FLe(Fin(0), x_)

_has_zero(_x, x_) ==
    IF _isempty(_x, x_) THEN FALSE
    ELSE IF _is_extended(_x, x_) THEN FLe(Fin(0), x_) \/ FLe(_x, Fin(0))
    ELSE FLe(_x, Fin(0)) /\ FLe(Fin(0), x_)

RECURSIVE _contains(_, _, _, _)
_contains(_s, s_, _o, o_) ==
    IF _isempty(_o, o_) THEN TRUE
    ELSE IF _isempty(_s, s_) THEN FALSE
    ELSE IF _is_extended(_s, s_) /\ _is_extended(_o, o_)
      THEN _contains(_s, s_, ninf, o_) /\ _contains(_s, s_, _o, inf)
    ELSE IF _is_extended(_s, s_)
      THEN _contains(ninf, s_, _o, o_) \/ _contains(_s, inf, _o, o_)
    ELSE IF _is_extended(_o, o_)
      THEN _contains(_s, s_, ninf, o_) \/ _contains(_s, s_, _o, inf)
    ELSE FLe(_s, _o) /\ FLe(o_, s_)

\* ------------------------------------------------------------- call results
\* a call returns or raises exc; v holds the floats it returns (a pair of bounds,
\* or one scalar), b the booleans; rm is the rounding register it leaves
Ret(v, rm) == [v |-> v, b |-> <<>>, rm |-> rm, exc |-> "none"]
RetBool(b, rm) == [v |-> <<>>, b |-> <<b>>, rm |-> rm, exc |-> "none"]
Raise(e, rm) == [v |-> <<>>, b |-> <<>>, rm |-> rm, exc |-> e]

\* ---------------------------------------------------- arithmetic operations
\* every operation takes the rounding register rm it is entered with
_add(_a, a_, _b, b_, rm) ==
    IF _isempty(_a, a_) \/ _isempty(_b, b_) THEN Ret(<<nan, nan>>, rm)
    ELSE IF _is_extended(_a, a_) /\ _is_extended(_b, b_) THEN Ret(<<ninf, inf>>, rm)
    ELSE LET _x == FAdd(_a, _b)
             x_ == FAdd(a_, b_)
         IN  Ret(<<_x, x_>>, round_nearest)

_sub(_a, a_, _b, b_, rm) ==
    IF _isempty(_a, a_) \/ _isempty(_b, b_) THEN Ret(<<nan, nan>>, rm)
    ELSE IF _is_extended(_a, a_) /\ _is_extended(_b, b_) THEN Ret(<<ninf, inf>>, rm)
    ELSE LET _x == FSub(_a, b_)
             x_ == FSub(a_, _b)
         IN  Ret(<<_x, x_>>, round_nearest)

\* p + 1 - 1, as the upper bounds of _mul and _div_simple are written
Plus1Minus1(p) == FSub(FAdd(p, Fin(1)), Fin(1))

_mul(_a, a_, _b, b_, rm) ==
    IF _isempty(_a, a_) \/ _isempty(_b, b_) THEN Ret(<<nan, nan>>, rm)
    ELSE IF _is_extended(_a, a_) /\ _is_extended(_b, b_) THEN Ret(<<ninf, inf>>, rm)
    ELSE LET _x == min(<<FMul(_a, _b), FMul(_a, b_), FMul(a_, _b), FMul(a_, b_)>>)
             x_ == max(<<Plus1Minus1(FMul(_a, _b)), Plus1Minus1(FMul(_a, b_)),
                         Plus1Minus1(FMul(a_, _b)), Plus1Minus1(FMul(a_, b_))>>)
         IN  Ret(<<_x, x_>>, round_nearest)

_div_simple(_a, a_, _b, b_, rm) ==
    IF _isempty(_a, a_) \/ _isempty(_b, b_) THEN Ret(<<nan, nan>>, rm)
    ELSE IF IsZero(_b) \/ IsZero(b_) THEN Raise("ZeroDivisionError", round_down)
    ELSE LET _x == min(<<FDiv(_a, _b, round_down), FDiv(_a, b_, round_down),
                         FDiv(a_, _b, round_down), FDiv(a_, b_, round_down)>>)
             x_ == max(<<Plus1Minus1(FDiv(_a, _b, round_up)),
                         Plus1Minus1(FDiv(_a, b_, round_up)),
                         Plus1Minus1(FDiv(a_, _b, round_up)),
                         Plus1Minus1(FDiv(a_, b_, round_up))>>)
         IN  Ret(<<_x, x_>>, round_nearest)

\* the nine `if` statements of _div, run in sequence on (_x, x_, register)
_div(_a, a_, _b, b_, rm) ==
    IF _isempty(_a, a_) \/ _isempty(_b, b_) THEN Ret(<<nan, nan>>, rm)
    ELSE
    LET Z == Fin(0)
        s0 == Ret(<<ninf, inf>>, rm)
        s1 == IF ~_has_zero(_b, b_) THEN _div_simple(_a, a_, _b, b_, rm) ELSE s0
        \* 0 \in a and 0 \in b: pass
        s2 == s1
        s3 == IF FLt(a_, Z) /\ FLt(_b, b_) /\ FEq(b_, Z)
              THEN Ret(<<FDiv(a_, _b, round_down), s2.v[2]>>, round_down)
              ELSE s2
        s4 == IF FLt(a_, Z) /\ FLt(_b, Z) /\ FLt(Z, b_)
              THEN Ret(<<FDiv(a_, _b, round_down), FDiv(a_, b_, round_up)>>, round_up)
              ELSE s3
        s5 == IF FLt(a_, Z) /\ FEq(Z, _b) /\ FLt(_b, b_)
              THEN Ret(<<s4.v[1], FDiv(a_, b_, round_up)>>, round_up)
              ELSE s4
        s6 == IF FLt(Z, _a) /\ FLt(_b, b_) /\ FEq(b_, Z)
              THEN Ret(<<s5.v[1], FDiv(_a, _b, round_up)>>, round_up)
              ELSE s5
        s7 == IF FLt(Z, _a) /\ FLt(_b, Z) /\ FLt(Z, b_)
              THEN Ret(<<FDiv(_a, b_, round_down), FDiv(_a, _b, round_up)>>, round_up)
              ELSE s6
        s8 == IF FLt(Z, _a) /\ FEq(Z, _b) /\ FLt(_b, b_)
              THEN Ret(<<FDiv(_a, b_, round_down), s7.v[2]>>, round_down)
              ELSE s7
        s9 == IF ~_has_zero(_a, a_) /\ FEq(_b, Z) /\ FEq(b_, Z)
              THEN Ret(<<nan, nan>>, s8.rm)
              ELSE s8
    IN  IF s1.exc # "none" THEN s1 ELSE Ret(s9.v, round_nearest)

\* ------------------------------------------------- numpy scalar functions
\* Each is entered with a directed register (FE_DOWNWARD or FE_UPWARD) and
\* returns an exact value as it is, an inexact one as the integer below / above.
Directed(lo, rm) == IF rm = FE_UPWARD THEN Fin(lo + 1) ELSE Fin(lo)

\* abs is exact
abs(a) == FAbs(a)

\* x ** n for an integer n >= 0, by repeated exact products
RECURSIVE FPow(_, _)
FPow(x, n) == IF n = 0 THEN Fin(1) ELSE IF n = 1 THEN x ELSE FMul(x, FPow(x, n - 1))

RECURSIVE IntPow(_, _)
IntPow(b, n) == IF n = 0 THEN 1 ELSE b * IntPow(b, n - 1)

\* floor(e^n) for 1 <= n <= 4, from the convergent 193/71 of e
ExpFloor(n) == IntPow(193, n) \div IntPow(71, n)

np_exp(a, rm) ==
    CASE isnan(a) -> nan
      [] a = inf -> inf
      [] a = ninf -> Fin(0)
      [] a = Fin(0) -> Fin(1)
      [] a[2] < 0 -> Directed(0, rm)
      [] OTHER -> Directed(ExpFloor(a[2]), rm)

\* largest r with r * r <= n
ISqrt(n) == CHOOSE r \in 0..n : r * r <= n /\ (r + 1) * (r + 1) > n

np_sqrt(a, rm) ==
    CASE isnan(a) -> nan
      [] a = inf -> inf
      [] a[2] < 0 -> nan
      [] ISqrt(a[2]) * ISqrt(a[2]) = a[2] -> Fin(ISqrt(a[2]))
      [] OTHER -> Directed(ISqrt(a[2]), rm)

\* floor(ln n) for 2 <= n <= 54: the largest k with e^k <= n
LogFloor(n) == CHOOSE k \in 0..3 : (k = 0 \/ ExpFloor(k) < n) /\ ExpFloor(k + 1) >= n

np_log(a, rm) ==
    CASE isnan(a) -> nan
      [] a = inf -> inf
      [] a[2] < 0 -> nan
      [] a = Fin(0) -> ninf
      [] a = Fin(1) -> Fin(0)
      [] OTHER -> Directed(LogFloor(a[2]), rm)

\* atan(1) = 0.785..., 1.107... <= atan(n) < atan(inf) = 1.570... for n >= 2
AtanFloor(a) == IF IsInf(a) \/ a[2] >= 2 THEN 1 ELSE 0

np_arctan(a, rm) ==
    CASE isnan(a) -> nan
      [] a = Fin(0) -> Fin(0)
      [] a[2] > 0 -> Directed(AtanFloor(a), rm)
      [] OTHER -> Directed(-AtanFloor(FNeg(a)) - 1, rm)

\* signs of sin(n) and cos(n) for an integer n, from the convergent 355/113 of pi
SinSign(n) ==
    IF n = 0 THEN 0
    ELSE IF n < 0 THEN (IF ((-n * 113) \div 355) % 2 = 0 THEN -1 ELSE 1)
    ELSE IF ((n * 113) \div 355) % 2 = 0 THEN 1 ELSE -1
CosSign(n) ==
    LET m == IF n < 0 THEN -n ELSE n
    IN  IF ((2 * m * 113 + 355) \div 710) % 2 = 0 THEN 1 ELSE -1

\* an inexact value of sign sg in (-1, 1), rounded in the direction rm
UnitVal(sg, rm) == IF sg = 0 THEN Fin(0) ELSE IF sg > 0 THEN Directed(0, rm) ELSE Directed(-1, rm)

\* np.sin and the sign of np.cos at the bound a, or at a + pi/2 when h = 1 (the
\* bound of _cos's shifted operand: side = -1 for the lower one, which lies just
\* below a + pi/2, side = 1 for the upper one, just above it)
np_sin(a, h, rm) ==
    IF ~IsFin(a) THEN nan
    ELSE IF h = 0 THEN UnitVal(SinSign(a[2]), rm) ELSE UnitVal(CosSign(a[2]), rm)
np_cos(a, h, side) ==
    IF ~IsFin(a) THEN nan
    ELSE IF h = 0 THEN Fin(CosSign(a[2]))
    ELSE IF a[2] = 0 THEN Fin(-side) ELSE Fin(-SinSign(a[2]))

\* ----------------------------------------------------- mignitude, magnitude
_mig(_a, a_, rm) ==
    IF _has_zero(_a, a_) THEN Ret(<<Fin(0)>>, rm)
    ELSE LET _x == abs(_a)
             x_ == abs(a_)
         IN  Ret(<<min(<<_x, x_>>)>>, round_nearest)

_mag(_a, a_, rm) ==
    LET _x == abs(_a)
        x_ == abs(a_)
    IN  Ret(<<max(<<_x, x_>>)>>, round_nearest)

\* ------------------------------------------- exponential, root, log, power
_exp(_a, a_, rm) ==
    LET _x == np_exp(_a, round_down)
        x_ == np_exp(a_, round_up)
    IN  Ret(<<_x, x_>>, round_nearest)

_sqrt(_a, a_, rm) ==
    IF FLe(Fin(0), _a)
    THEN LET _x == np_sqrt(_a, round_down)
             x_ == np_sqrt(a_, round_up)
         IN  Ret(<<_x, x_>>, round_nearest)
    ELSE Raise("NotImplementedError", rm)

_log(_a, a_, rm) ==
    IF FLt(Fin(0), _a)
    THEN LET _x == np_log(_a, round_down)
             x_ == np_log(a_, round_up)
         IN  Ret(<<_x, x_>>, round_nearest)
    ELSE Raise("NotImplementedError", rm)

\* the three `if` statements of _pow, run in sequence on (_x, x_)
_pow(_a, a_, n, rm) ==
    LET s0 == <<Fin(1), Fin(1)>>
        s1 == IF n > 1 /\ n % 2 = 1
              THEN <<FPow(_a, n), FPow(a_, n)>>
              ELSE s0
        s2 == IF n > 1 /\ n % 2 = 0
              THEN <<FPow(_mig(_a, a_, round_down).v[1], n),
                     FPow(_mag(_a, a_, round_up).v[1], n)>>
              ELSE s1
        s3 == IF n < 0 /\ ~_has_zero(_a, a_)
              THEN <<FPow(FDiv(Fin(1), a_, round_down), -n),
                     FPow(FDiv(Fin(1), _a, round_up), -n)>>
              ELSE s2
    IN  Ret(s3, round_nearest)

\* ---------------------------------------------------------- trigonometry
\* d >= 2.0 * _pi = 6.283...: d is an integer or an infinity
GeTwoPi(d) == FGe(d, Fin(7))

\* the body of _sin on the operand [_a, a_] (h = 0) or [_a, a_] + pi/2 (h = 1)
SinBody(_a, a_, h, rm) ==
    LET d == FSub(a_, _a)
        _x == min(<<np_sin(_a, h, round_down), np_sin(a_, h, round_down)>>)
        x_ == max(<<np_sin(_a, h, round_up), np_sin(a_, h, round_up)>>)
        _c == np_cos(_a, h, -1)
        c_ == np_cos(a_, h, 1)
    IN  IF isnan(d) \/ GeTwoPi(d) THEN Ret(<<Fin(-1), Fin(1)>>, round_up)
        ELSE IF FLe(_c, Fin(0)) /\ FLe(Fin(0), c_) THEN Ret(<<Fin(-1), x_>>, round_nearest)
        ELSE IF FGe(_c, Fin(0)) /\ FGe(Fin(0), c_) THEN Ret(<<_x, Fin(1)>>, round_nearest)
        ELSE Ret(<<_x, x_>>, round_nearest)

_sin(_a, a_, rm) == SinBody(_a, a_, 0, rm)

\* _div(_pi, pi_, 2, 2) and _add(_a, a_, _b, b_) leave the register at nearest;
\* the sum is empty when the operand is, else the operand shifted by pi/2
_cos(_a, a_, rm) ==
    IF _isempty(_a, a_) THEN SinBody(nan, nan, 0, round_nearest)
    ELSE SinBody(_a, a_, 1, round_nearest)

_atan(_a, a_, rm) ==
    LET _x == np_arctan(_a, round_down)
        x_ == np_arctan(a_, round_up)
    IN  Ret(<<_x, x_>>, round_nearest)

\* ------------------------------------------------------------ Interval class
\* Interval.__init__: the object (v holds _x and x_, b holds isempty, is_extended
\* and is_thin), or the AssertionError of the validity check
Interval(_x, x_, rm) ==
    LET u == IF isnan(x_) THEN _x ELSE x_
    IN  IF _is_valid(_x, u)
        THEN [v |-> <<_x, u>>, b |-> <<_isempty(_x, x_), FGt(_x, x_), FEq(_x, u)>>,
              rm |-> rm, exc |-> "none"]
        ELSE Raise("AssertionError", rm)

\* I(*op(...)): the operator's pair handed to the constructor
Construct(r) == IF r.exc # "none" THEN r ELSE Interval(r.v[1], r.v[2], r.rm)

__add__(_s, s_, _o, o_, rm) == Construct(_add(_s, s_, _o, o_, rm))
__sub__(_s, s_, _o, o_, rm) == Construct(_sub(_s, s_, _o, o_, rm))
__mul__(_s, s_, _o, o_, rm) == Construct(_mul(_s, s_, _o, o_, rm))
__truediv__(_s, s_, _o, o_, rm) == Construct(_div(_s, s_, _o, o_, rm))

\* Interval.__pow__: the pair of _pow handed to the constructor
__pow__(_s, s_, n, rm) == Construct(_pow(_s, s_, n, rm))

\* Interval.is_inclusion: an empty other first, then the plain comparison of
\* the bounds
is_inclusion(_s, s_, _o, o_, rm) ==
    IF _isempty(_o, o_) THEN RetBool(TRUE, rm)
    ELSE RetBool(FLt(_s, _o) /\ FLt(o_, s_), rm)

\* Interval.__and__: I() or I(max(_s, _o), min(s_, o_))
__and__(_s, s_, _o, o_, rm) ==
    IF FLt(s_, _o) \/ FLt(o_, _s) \/ (_isempty(_s, s_) \/ _isempty(_o, o_))
    THEN Interval(nan, nan, rm)
    ELSE Interval(max(<<_s, _o>>), min(<<s_, o_>>), rm)

\* Interval.__or__: I(min(_s, _o), max(s_, o_)), or the operand that is not
\* empty
__or__(_s, s_, _o, o_, rm) ==
    IF ~(_isempty(_s, s_) \/ _isempty(_o, o_))
    THEN Interval(min(<<_s, _o>>), max(<<s_, o_>>), rm)
    ELSE IF _isempty(_s, s_) THEN Interval(_o, o_, rm) ELSE Interval(_s, s_, rm)

\* ------------------------------------------------------------- test helper
\* the operators the tests hand to check_inc_iso
IsoOp(f, _a, a_, _b, b_, rm) ==
    CASE f = "_add" -> _add(_a, a_, _b, b_, rm)
      [] f = "_sub" -> _sub(_a, a_, _b, b_, rm)
      [] f = "_mul" -> _mul(_a, a_, _b, b_, rm)

\* check_inc_iso on one case: pre is the first assertion, post the second; v
\* holds fn(_y, y_, _z, z_) followed by fn(_x, x_, _z, z_)
check_inc_iso(f, _x, x_, _y, y_, _z, z_, rm) ==
    LET ry == IsoOp(f, _y, y_, _z, z_, rm)
        rx == IsoOp(f, _x, x_, _z, z_, ry.rm)
        pre == _contains(_y, y_, _x, x_)
        post == _contains(ry.v[1], ry.v[2], rx.v[1], rx.v[2])
    IN  IF ~pre THEN Raise("AssertionError", rm)
        ELSE [v |-> ry.v \o rx.v, b |-> <<post>>, rm |-> rx.rm,
              exc |-> IF post THEN "none" ELSE "AssertionError"]

\* ----------------------------------------------------------------- inputs
Bounds(N) == {Fin(k) : k \in -N..N} \cup {ninf, inf}
Floats(N) == Bounds(N) \cup {nan}
\* the valid pairs: the normal and the extended intervals, and the empty one
Intervals(N) == (Bounds(N) \X Bounds(N)) \cup {<<nan, nan>>}

\* ----------------------------------------------------------- state machine
VARIABLES fn, farg, args, out, entry, mode
vars == <<fn, farg, args, out, entry, mode>>

\* fn: the function called ("none" between calls); farg: the operator handed to
\* check_inc_iso; args: the numeric arguments; out: what the call returned or
\* raised; entry: the rounding register when it was entered; mode: the
\* rounding register now
Init ==
    /\ fn = "none"
    /\ farg = "none"
    /\ args = <<>>
    /\ out = Ret(<<>>, round_nearest)
    /\ entry = round_nearest
    /\ mode = round_nearest

Finish(f, a, r) ==
    /\ fn' = f
    /\ farg' = "none"
    /\ args' = a
    /\ out' = r
    /\ entry' = mode
    /\ mode' = r.rm

Call_add ==
    /\ fn = "none"
    /\ \E A \in Intervals(MaxN), B \in Intervals(MaxN) :
         Finish("_add", <<A[1], A[2], B[1], B[2]>>, _add(A[1], A[2], B[1], B[2], mode))

Call_sub ==
    /\ fn = "none"
    /\ \E A \in Intervals(MaxN), B \in Intervals(MaxN) :
         Finish("_sub", <<A[1], A[2], B[1], B[2]>>, _sub(A[1], A[2], B[1], B[2], mode))

Call_mul ==
    /\ fn = "none"
    /\ \E A \in Intervals(MaxN), B \in Intervals(MaxN) :
         Finish("_mul", <<A[1], A[2], B[1], B[2]>>, _mul(A[1], A[2], B[1], B[2], mode))

Call_div_simple ==
    /\ fn = "none"
    /\ \E A \in Intervals(MaxN), B \in Intervals(MaxN) :
         Finish("_div_simple", <<A[1], A[2], B[1], B[2]>>,
                _div_simple(A[1], A[2], B[1], B[2], mode))

Call_div ==
    /\ fn = "none"
    /\ \E A \in Intervals(MaxN), B \in Intervals(MaxN) :
         Finish("_div", <<A[1], A[2], B[1], B[2]>>, _div(A[1], A[2], B[1], B[2], mode))

Call_has_zero ==
    /\ fn = "none"
    /\ \E A \in Intervals(MaxN) :
         Finish("_has_zero", A, RetBool(_has_zero(A[1], A[2]), mode))

Call_contains ==
    /\ fn = "none"
    /\ \E S \in Intervals(MaxN), O \in Intervals(MaxN) :
         Finish("_contains", <<S[1], S[2], O[1], O[2]>>,
                RetBool(_contains(S[1], S[2], O[1], O[2]), mode))

\* the tests' check_inc_iso(fn, cases) on one case (_x, x_, _y, y_, _z, z_)
Call_check_inc_iso ==
    /\ fn = "none"
    /\ \E f \in {"_add", "_sub", "_mul"} :
       \E X \in Intervals(MaxIso), Y \in Intervals(MaxIso), Z \in Intervals(MaxIso) :
         LET r == check_inc_iso(f, X[1], X[2], Y[1], Y[2], Z[1], Z[2], mode)
         IN  /\ fn' = "check_inc_iso"
             /\ farg' = f
             /\ args' = X \o Y \o Z
             /\ out' = r
             /\ entry' = mode
             /\ mode' = r.rm

Call_mig ==
    /\ fn = "none"
    /\ \E A \in Intervals(MaxN) : Finish("_mig", A, _mig(A[1], A[2], mode))

Call_mag ==
    /\ fn = "none"
    /\ \E A \in Intervals(MaxN) : Finish("_mag", A, _mag(A[1], A[2], mode))

Call_exp ==
    /\ fn = "none"
    /\ \E A \in Intervals(MaxN) : Finish("_exp", A, _exp(A[1], A[2], mode))

Call_sqrt ==
    /\ fn = "none"
    /\ \E A \in Intervals(MaxN) : Finish("_sqrt", A, _sqrt(A[1], A[2], mode))

Call_log ==
    /\ fn = "none"
    /\ \E A \in Intervals(MaxN) : Finish("_log", A, _log(A[1], A[2], mode))

Call_pow ==
    /\ fn = "none"
    /\ \E A \in Intervals(MaxN), n \in -MaxPow..MaxPow :
         Finish("_pow", <<A[1], A[2], Fin(n)>>, _pow(A[1], A[2], n, mode))

Call_sin ==
    /\ fn = "none"
    /\ \E A \in Intervals(MaxAngle) : Finish("_sin", A, _sin(A[1], A[2], mode))

Call_cos ==
    /\ fn = "none"
    /\ \E A \in Intervals(MaxAngle) : Finish("_cos", A, _cos(A[1], A[2], mode))

Call_atan ==
    /\ fn = "none"
    /\ \E A \in Intervals(MaxN) : Finish("_atan", A, _atan(A[1], A[2], mode))

\* Interval(lower, upper) on any two floats
Call_Interval ==
    /\ fn = "none"
    /\ \E l \in Floats(MaxN), u \in Floats(MaxN) :
         Finish("Interval", <<l, u>>, Interval(l, u, mode))

\* the operators +, -, *, / on two constructed Intervals
Call__add__ ==
    /\ fn = "none"
    /\ \E S \in Intervals(MaxN), O \in Intervals(MaxN) :
         Finish("__add__", <<S[1], S[2], O[1], O[2]>>, __add__(S[1], S[2], O[1], O[2], mode))

Call__sub__ ==
    /\ fn = "none"
    /\ \E S \in Intervals(MaxN), O \in Intervals(MaxN) :
         Finish("__sub__", <<S[1], S[2], O[1], O[2]>>, __sub__(S[1], S[2], O[1], O[2], mode))

Call__mul__ ==
    /\ fn = "none"
    /\ \E S \in Intervals(MaxN), O \in Intervals(MaxN) :
         Finish("__mul__", <<S[1], S[2], O[1], O[2]>>, __mul__(S[1], S[2], O[1], O[2], mode))

Call__truediv__ ==
    /\ fn = "none"
    /\ \E S \in Intervals(MaxN), O \in Intervals(MaxN) :
         Finish("__truediv__", <<S[1], S[2], O[1], O[2]>>,
                __truediv__(S[1], S[2], O[1], O[2], mode))

\* ** with an integer exponent on a constructed Interval
Call__pow__ ==
    /\ fn = "none"
    /\ \E S \in Intervals(MaxN), n \in -MaxPow..MaxPow :
         Finish("__pow__", <<S[1], S[2], Fin(n)>>, __pow__(S[1], S[2], n, mode))

\* the set predicates and operators on two constructed Intervals
Call_is_inclusion ==
    /\ fn = "none"
    /\ \E S \in Intervals(MaxN), O \in Intervals(MaxN) :
         Finish("is_inclusion", <<S[1], S[2], O[1], O[2]>>,
                is_inclusion(S[1], S[2], O[1], O[2], mode))

Call__and__ ==
    /\ fn = "none"
    /\ \E S \in Intervals(MaxN), O \in Intervals(MaxN) :
         Finish("__and__", <<S[1], S[2], O[1], O[2]>>, __and__(S[1], S[2], O[1], O[2], mode))

Call__or__ ==
    /\ fn = "none"
    /\ \E S \in Intervals(MaxN), O \in Intervals(MaxN) :
         Finish("__or__", <<S[1], S[2], O[1], O[2]>>, __or__(S[1], S[2], O[1], O[2], mode))

\* the caller takes the result; the rounding register stays as the call left it
Return ==
    /\ fn # "none"
    /\ fn' = "none"
    /\ farg' = "none"
    /\ args' = <<>>
    /\ out' = Ret(<<>>, mode)
    /\ entry' = mode
    /\ UNCHANGED mode

Next ==
    \/ Call_sin
    \/ Call_cos
    \/ Call_add
    \/ Call_sub
    \/ Call_mul
    \/ Call_div_simple
    \/ Call_div
    \/ Call_has_zero
    \/ Call_contains
    \/ Call_check_inc_iso
    \/ Call_mig
    \/ Call_mag
    \/ Call_exp
    \/ Call_sqrt
    \/ Call_log
    \/ Call_pow
    \/ Call_atan
    \/ Call_Interval
    \/ Call__add__
    \/ Call__sub__
    \/ Call__mul__
    \/ Call__truediv__
    \/ Call__pow__
    \/ Call_is_inclusion
    \/ Call__and__
    \/ Call__or__
    \/ Return

Spec == Init /\ [][Next]_vars

\* ------------------------------------------------------------ set semantics
\* the point p lies in the set denoted by [lo, hi]: lo <= p <= hi for a normal
\* interval, p <= hi or p >= lo for an extended one, never for the empty one
In(p, lo, hi) ==
    IF isnan(lo) \/ isnan(hi) THEN FALSE
    ELSE IF FGt(lo, hi) THEN FLe(p, hi) \/ FGe(p, lo)
    ELSE FLe(lo, p) /\ FLe(p, hi)

\* bounds on the scale of half units, where the points between two neighbouring
\* integers are represented by their midpoint
Dbl(b) == IF IsFin(b) THEN Fin(2 * b[2]) ELSE b
\* the test points of the extended real line that tell apart any two sets whose
\* bounds lie in Bounds(N): every integer and midpoint from -N - 1 to N + 1 (on
\* the half-unit scale), and the two infinities
Points(N) == {ninf, inf} \cup {Fin(k) : k \in (-2 * N - 2)..(2 * N + 2)}
SubsetOf(_o, o_, _s, s_, N) ==
    \A p \in Points(N) : In(p, Dbl(_o), Dbl(o_)) => In(p, Dbl(_s), Dbl(s_))

\* the real points x, y of the operands used to probe an enclosure
Reals(N) == {Fin(k) : k \in -N..N}

\* ------------------------------------------------------------------ claims
ArithFns == {"_add", "_sub", "_mul"}
NonEmpty(lo, hi) == ~isnan(lo) /\ ~isnan(hi)

\* C1: inclusion isotonicity of add, sub and mul: whenever contains(Y, X) holds,
\* contains(op(Y, Z), op(X, Z)) holds, for all X, Y, Z empty, normal or extended
\* (the second assertion of check_inc_iso never fails).
C1_InclusionIsotone ==
    (fn = "check_inc_iso" /\ _contains(args[3], args[4], args[1], args[2]))
    => /\ out.exc = "none"
       /\ _contains(out.v[1], out.v[2], out.v[3], out.v[4])

\* the exact x op y of two real points
Exact(f, x, y) ==
    CASE f = "_add" -> FAdd(x, y)
      [] f = "_sub" -> FSub(x, y)
      [] f = "_mul" -> FMul(x, y)

\* C2: enclosure: for op in {_add, _sub, _mul} and non-empty operands A and B,
\* for every point x of A and y of B the exact x op y is a point of op(A, B).
C2_Enclosure ==
    (fn \in ArithFns /\ NonEmpty(args[1], args[2]) /\ NonEmpty(args[3], args[4]))
    => \A x \in Reals(MaxN), y \in Reals(MaxN) :
         (In(x, args[1], args[2]) /\ In(y, args[3], args[4]))
         => In(Exact(fn, x, y), out.v[1], out.v[2])

\* C3: empty absorption: for _add, _sub, _mul, _div_simple and _div, if either
\* operand is the empty interval (both bounds NaN) the result is the empty
\* interval, whatever the other operand is.
C3_EmptyAbsorption ==
    (fn \in {"_add", "_sub", "_mul", "_div_simple", "_div"}
       /\ ((args[1] = nan /\ args[2] = nan) \/ (args[3] = nan /\ args[4] = nan)))
    => (out.exc = "none" /\ out.v = <<nan, nan>>)

\* an empty dividend over a divisor that contains zero has come back empty
C3_Witness ==
    /\ fn = "_div"
    /\ args[1] = nan
    /\ args[2] = nan
    /\ args[3] = Fin(-1)
    /\ args[4] = Fin(1)
    /\ out.v = <<nan, nan>>

\* C4: _contains(self, other) is the subset test: it returns true if and only
\* if every point of the set denoted by other is a point of the one denoted by self.
C4_ContainsIsSubset ==
    fn = "_contains"
    => (out.b[1] = SubsetOf(args[3], args[4], args[1], args[2], MaxN))

\* C5: every rounding-sensitive operation restores the rounding mode: entered
\* with the register at round-to-nearest, each of _add, _sub, _mul, _div_simple,
\* _div, _mig, _mag, _exp, _sqrt, _log, _pow, _sin, _cos, _atan leaves it at
\* round-to-nearest when it returns or raises.
RoundingFns ==
    {"_add", "_sub", "_mul", "_div_simple", "_div", "_mig", "_mag", "_exp",
     "_sqrt", "_log", "_pow", "_sin", "_cos", "_atan"}
C5_RoundingRestored ==
    (fn \in RoundingFns /\ entry = FE_TONEAREST) => mode = FE_TONEAREST

\* C6: Interval(lower, upper) fails with the invalid-state error exactly when
\* one of the two bounds is NaN and the other is not.
C6_MismatchFailsFast ==
    fn = "Interval"
    => ((out.exc = "AssertionError") <=> (isnan(args[1]) # isnan(args[2])))

\* C7: for every pair of valid operands _add, _sub, _mul and _div return a valid
\* pair (both bounds NaN or neither), and the facade operators +, -, *, / never
\* hit the invalid-state failure.
C7_ArithmeticTotal ==
    /\ fn \in {"_add", "_sub", "_mul", "_div"}
       => (out.exc = "none" /\ _is_valid(out.v[1], out.v[2]))
    /\ fn \in {"__add__", "__sub__", "__mul__", "__truediv__"} => out.exc = "none"

\* zero-membership as the claim tabulates it
ZeroTable(lo, hi) ==
    IF lo = nan /\ hi = nan THEN FALSE
    ELSE IF FLt(hi, lo) THEN FLe(Fin(0), hi) \/ FLe(lo, Fin(0))
    ELSE FLe(lo, Fin(0)) /\ FLe(Fin(0), hi)

\* C8: has_zero is zero-membership: false for the empty interval, (0 <= upper)
\* or (lower <= 0) for an extended one, lower <= 0 <= upper otherwise; and
\* _has_zero(X) equals _contains(X, [0, 0]) for every interval X.
C8_HasZero ==
    fn = "_has_zero"
    => /\ out.b[1] = ZeroTable(args[1], args[2])
       /\ out.b[1] = _contains(args[1], args[2], Fin(0), Fin(0))

\* an extended interval whose upper arm alone reaches zero was found to have it
C8_Witness ==
    /\ fn = "_has_zero"
    /\ args = <<Fin(-1), Fin(-2)>>
    /\ out.b = <<TRUE>>

\* C9: for all non-empty A and B (normal or extended) that both contain zero,
\* _div(A, B) returns exactly (-inf, +inf).
C9_DivBothHaveZero ==
    (fn = "_div" /\ NonEmpty(args[1], args[2]) /\ NonEmpty(args[3], args[4])
       /\ _has_zero(args[1], args[2]) /\ _has_zero(args[3], args[4]))
    => (out.exc = "none" /\ out.v = <<ninf, inf>>)

\* C10: _sqrt returns a result only for a non-extended interval with lower >= 0
\* and _log only for a non-extended one with lower > 0; every other input
\* (extended, empty, negative / non-positive lower) fails with the
\* unsupported-domain error.
C10_DomainErrors ==
    /\ fn = "_sqrt"
       => IF NonEmpty(args[1], args[2]) /\ FLe(args[1], args[2]) /\ FLe(Fin(0), args[1])
          THEN out.exc = "none"
          ELSE out.exc = "NotImplementedError"
    /\ fn = "_log"
       => IF NonEmpty(args[1], args[2]) /\ FLe(args[1], args[2]) /\ FLt(Fin(0), args[1])
          THEN out.exc = "none"
          ELSE out.exc = "NotImplementedError"

\* C11: is_inclusion is the strict analogue of contains: for all self and other
\* (each empty, normal or extended), is_inclusion(self, other) returning true
\* implies that _contains(self, other) is true.
C11_InclusionImpliesContains ==
    (fn = "is_inclusion" /\ out.b[1])
    => _contains(args[1], args[2], args[3], args[4])

\* a bound b on the scale where the point x is represented by p = 2 * x and its
\* power x^n by p^n: b * 2^n
Scaled(b, n) == FMul(b, Fin(IntPow(2, n)))

\* C12: integer power encloses the pointwise power: for every non-empty,
\* non-extended X and every integer n >= 0, _pow(X, n) returns (lower, upper)
\* with lower <= x^n <= upper for every point x of X; n = 0 gives [1, 1], odd
\* n > 1 gives [lower^n, upper^n] and even n > 1 gives [mig^n, mag^n].
C12_PowEnclosure ==
    (fn = "_pow" /\ NonEmpty(args[1], args[2]) /\ FLe(args[1], args[2])
       /\ args[3][2] >= 0)
    => LET n == args[3][2]
       IN  /\ out.exc = "none"
           /\ \A p \in Points(MaxN) :
                (IsFin(p) /\ In(p, Dbl(args[1]), Dbl(args[2])))
                => /\ FLe(Scaled(out.v[1], n), FPow(p, n))
                   /\ FLe(FPow(p, n), Scaled(out.v[2], n))
           /\ n = 0 => out.v = <<Fin(1), Fin(1)>>
           /\ (n > 1 /\ n % 2 = 1)
              => out.v = <<FPow(args[1], n), FPow(args[2], n)>>
           /\ (n > 1 /\ n % 2 = 0)
              => out.v = <<FPow(_mig(args[1], args[2], round_nearest).v[1], n),
                           FPow(_mag(args[1], args[2], round_nearest).v[1], n)>>

\* S and O share no point
Disjoint(_s, s_, _o, o_, N) ==
    \A p \in Points(N) : ~(In(p, Dbl(_s), Dbl(s_)) /\ In(p, Dbl(_o), Dbl(o_)))

\* C13: intersection is contained in both operands: for all S and O (each
\* empty, normal or extended), R = S & O satisfies contains(S, R) and
\* contains(O, R); R is empty when S and O share no point or either is empty.
C13_AndContained ==
    fn = "__and__"
    => /\ out.exc = "none"
       /\ _contains(args[1], args[2], out.v[1], out.v[2])
       /\ _contains(args[3], args[4], out.v[1], out.v[2])
       /\ (\/ _isempty(args[1], args[2])
           \/ _isempty(args[3], args[4])
           \/ Disjoint(args[1], args[2], args[3], args[4], MaxN))
          => _isempty(out.v[1], out.v[2])

\* C14: hull bounds the union: for all S and O (each empty, normal or
\* extended), H = S | O satisfies contains(H, S) and contains(H, O); when
\* exactly one operand is empty, H is the other operand.
C14_OrContains ==
    fn = "__or__"
    => /\ out.exc = "none"
       /\ _contains(out.v[1], out.v[2], args[1], args[2])
       /\ _contains(out.v[1], out.v[2], args[3], args[4])
       /\ (_isempty(args[1], args[2]) /\ ~_isempty(args[3], args[4]))
          => out.v = <<args[3], args[4]>>
       /\ (~_isempty(args[1], args[2]) /\ _isempty(args[3], args[4]))
          => out.v = <<args[1], args[2]>>

====
